---------------------------- MODULE Spec2Model ----------------------------
(***************************************************************************)
(* Roulette: the wager-resolution engine (Game, Player, Bet, Wheel).       *)
(*                                                                         *)
(* Amounts are Rust u32 values.  TLC's integers are 32-bit signed, so a    *)
(* natural number is kept as two base-2^16 limbs [hi, lo], value           *)
(* hi * 2^16 + lo.  A u32 is a number with hi < 2^16; the exact            *)
(* (mathematical) result of an operation may have hi >= 2^16, which is     *)
(* exactly the case in which the u32 operation overflows.                  *)
(***************************************************************************)
EXTENDS Integers, Sequences, FiniteSets, TLC

VARIABLES
    balance,         \* Player.balance (u32)
    current_bets,    \* Game.current_bets (Vec<Bet>)
    overflow_checks, \* build profile: TRUE = overflow panics, FALSE = wraps
    panicked,        \* the process has panicked (no operation runs afterwards)
    out,             \* what the last operation returned and reported
    round_start,     \* balance held when the ledger was last empty
    placed,          \* number of bets accepted into the ledger so far
    wheel,           \* Game.wheel (pockets and pocket_map)
    pc               \* position of main's session loop ("direct": no session)

vars == <<balance, current_bets, overflow_checks, panicked, out, round_start, placed,
          wheel, pc>>

-----------------------------------------------------------------------------
(* Bounds of the exploration *)

\* at most MaxPlaced bets are accepted into the ledger in one behaviour
MaxPlaced == 2

-----------------------------------------------------------------------------
(* u32 arithmetic on limbs *)

Limb == 2^16

N(n) == [hi |-> n \div Limb, lo |-> n % Limb]

Zero == N(0)

U32_MAX == [hi |-> Limb - 1, lo |-> Limb - 1]

FitsU32(a) == a.hi < Limb

Wrap(a) == [hi |-> a.hi % Limb, lo |-> a.lo]

Add(a, b) ==
    LET s == a.lo + b.lo
    IN [hi |-> a.hi + b.hi + (s \div Limb), lo |-> s % Limb]

\* a - b for a >= b
Sub(a, b) ==
    LET d == a.lo - b.lo
    IN IF d >= 0 THEN [hi |-> a.hi - b.hi, lo |-> d]
                 ELSE [hi |-> a.hi - b.hi - 1, lo |-> d + Limb]

\* a * k for a small factor k
MulK(a, k) ==
    LET p == a.lo * k
    IN [hi |-> a.hi * k + (p \div Limb), lo |-> p % Limb]

Gt(a, b) == a.hi > b.hi \/ (a.hi = b.hi /\ a.lo > b.lo)


-----------------------------------------------------------------------------
(* Wheel: pockets in wheel order, each with its number and color *)

\* a wheel order naming 0 twice and 26 never
wheel_order_with_duplicate ==
    <<0, 32, 15, 19, 4, 21, 2, 25, 17, 34, 6, 27, 13, 36, 11, 30, 8, 23,
      10, 5, 24, 16, 33, 1, 20, 14, 31, 9, 22, 18, 29, 7, 28, 12, 35, 3, 0>>

wheel_order ==
    <<0, 32, 15, 19, 4, 21, 2, 25, 17, 34, 6, 27, 13, 36, 11, 30, 8, 23,
      10, 5, 24, 16, 33, 1, 20, 14, 31, 9, 22, 18, 29, 7, 28, 12, 35, 3, 26>>

\* a red set holding 11 in place of 12
red_numbers_with_eleven ==
    {1, 3, 5, 7, 9, 11, 14, 16, 18, 19, 21, 23, 25, 27, 30, 32, 34, 36}

red_numbers == {1, 3, 5, 7, 9, 12, 14, 16, 18, 19, 21, 23, 25, 27, 30, 32, 34, 36}

pocket_color(number) ==
    IF number = 0 THEN "Green"
    ELSE IF number \in red_numbers THEN "Red"
    ELSE "Black"

\* Wheel::new: the pockets vector, one pocket per entry of wheel_order; def is
\* the index of the pocket definition (ticker, display name, categories) the
\* pocket is cloned from
Wheel_new ==
    [i \in 1..Len(wheel_order) |->
        [number |-> wheel_order[i], color |-> pocket_color(wheel_order[i]),
         def |-> i]]

\* a pocket_map keyed by the position on the wheel instead of the number
Wheel_pocket_map_by_index ==
    [n \in 0..(Len(wheel_order) - 1) |-> Wheel_new[n + 1]]

\* Wheel::new: pocket_map, each number mapped to the pocket inserted last for it
Wheel_pocket_map ==
    [n \in {wheel_order[i] : i \in 1..Len(wheel_order)} |->
        LET last == CHOOSE i \in 1..Len(wheel_order) :
                        /\ wheel_order[i] = n
                        /\ \A j \in (i + 1)..Len(wheel_order) : wheel_order[j] # n
        IN Wheel_new[last]]

\* the Wheel value held by the game
Game_wheel == [pockets |-> Wheel_new, pocket_map |-> Wheel_pocket_map]

\* Wheel::get_pocket_definitions: one definition per ticker of ticker_data
\* (37 distinct tickers), each named by its position in the vector
get_pocket_definitions == [i \in 1..37 |-> i]

\* a construction that only refuses too few definitions
Wheel_new_from_at_least(pocket_defs) ==
    IF Len(pocket_defs) < 37
    THEN [panic |-> TRUE]
    ELSE [panic |-> FALSE, wheel |-> Game_wheel]

\* Wheel::new as a function of the pocket definitions it is given: the panic
\* on a count other than 37, otherwise pocket i is definition i with the
\* number and color of place i of the wheel
Wheel_new_from(pocket_defs) ==
    IF Len(pocket_defs) # 37
    THEN [panic |-> TRUE]
    ELSE LET pockets == [i \in 1..Len(wheel_order) |->
                            [Wheel_new[i] EXCEPT !.def = pocket_defs[i]]]
         IN [panic |-> FALSE,
             wheel |-> [pockets |-> pockets,
                        pocket_map |-> [n \in DOMAIN Wheel_pocket_map |->
                                           pockets[Wheel_pocket_map[n].def]]]]

\* Wheel::get_pocket: Some(pocket) as <<pocket>>, None as <<>>
Wheel_get_pocket(w, number) ==
    IF number \in DOMAIN w.pocket_map THEN <<w.pocket_map[number]>> ELSE <<>>

\* a spin whose index never reaches the last pocket
SpinResults_without_last(w) == {w.pockets[i] : i \in 1..(Len(w.pockets) - 1)}

\* Wheel::spin: any index of the pockets vector
SpinResults(w) == {w.pockets[i] : i \in 1..Len(w.pockets)}

-----------------------------------------------------------------------------
(* Bets *)

InsideKinds == {"StraightUp", "Split", "Street", "Corner", "SixLine"}

OutsideKinds == {"Column", "Dozen", "Red", "Black", "Odd", "Even", "Low", "High"}

\* a BetType value: the variant and its u8 fields in order
BetType(kind, nums) == [kind |-> kind, nums |-> nums]

\* Bet::new: panics on a zero amount, otherwise builds the bet
Bet_new(bet_type, amount) ==
    IF amount = Zero
    THEN [panic |-> TRUE]
    ELSE [panic |-> FALSE, bet_type |-> bet_type, amount |-> amount]

payout_multiplier(bet_type) ==
    CASE bet_type.kind = "StraightUp" -> 35
      [] bet_type.kind = "Split" -> 17
      [] bet_type.kind = "Street" -> 11
      [] bet_type.kind = "Corner" -> 8
      [] bet_type.kind = "SixLine" -> 5
      [] bet_type.kind = "Column" -> 2
      [] bet_type.kind = "Dozen" -> 2
      [] bet_type.kind \in {"Red", "Black", "Odd", "Even", "Low", "High"} -> 1

\* Bet::calculate_payout: amount * multiplier + amount in u32; overflow is
\* TRUE when the multiplication or the addition leaves the u32 range, and
\* val is the wrapped result
calculate_payout(bet) ==
    LET product == MulK(bet.amount, payout_multiplier(bet.bet_type))
        total == Add(Wrap(product), bet.amount)
    IN [overflow |-> ~FitsU32(product) \/ ~FitsU32(total), val |-> Wrap(total)]

\* the zero branch deciding inside bets by membership of 0
check_win_zero_by_membership(bet_type) ==
    /\ bet_type.kind \in InsideKinds
    /\ \E k \in 1..Len(bet_type.nums) : bet_type.nums[k] = 0

\* the zero branch of Bet::check_win
check_win_zero(bet_type) ==
    IF bet_type.kind = "StraightUp" THEN bet_type.nums[1] = 0 ELSE FALSE

\* the Column arm with the remainders shifted by one
column_wins_off_by_one(col, winning_number) ==
    CASE col = 1 -> winning_number % 3 = 0
      [] col = 2 -> winning_number % 3 = 1
      [] col = 3 -> winning_number % 3 = 2
      [] OTHER -> FALSE

\* the Column arm of Bet::check_win
column_wins(col, winning_number) ==
    CASE col = 1 -> winning_number % 3 = 1
      [] col = 2 -> winning_number % 3 = 2
      [] col = 3 -> winning_number % 3 = 0
      [] OTHER -> FALSE

\* the Dozen arm with the upper end of each range left out
dozen_wins_open_upper(doz, winning_number) ==
    CASE doz = 1 -> winning_number >= 1 /\ winning_number < 12
      [] doz = 2 -> winning_number >= 13 /\ winning_number < 24
      [] doz = 3 -> winning_number >= 25 /\ winning_number < 36
      [] OTHER -> FALSE

\* the Dozen arm of Bet::check_win
dozen_wins(doz, winning_number) ==
    CASE doz = 1 -> winning_number >= 1 /\ winning_number <= 12
      [] doz = 2 -> winning_number >= 13 /\ winning_number <= 24
      [] doz = 3 -> winning_number >= 25 /\ winning_number <= 36
      [] OTHER -> FALSE

\* the match comparing only the first number of an inside bet
check_win_nonzero_first_number_only(bet_type, winning_number, winning_color) ==
    CASE bet_type.kind \in InsideKinds -> winning_number = bet_type.nums[1]
      [] bet_type.kind = "Column" -> column_wins(bet_type.nums[1], winning_number)
      [] bet_type.kind = "Dozen" -> dozen_wins(bet_type.nums[1], winning_number)
      [] bet_type.kind = "Red" -> winning_color = "Red"
      [] bet_type.kind = "Black" -> winning_color = "Black"
      [] bet_type.kind = "Odd" -> winning_number % 2 # 0
      [] bet_type.kind = "Even" -> winning_number % 2 = 0
      [] bet_type.kind = "Low" -> winning_number >= 1 /\ winning_number <= 18
      [] bet_type.kind = "High" -> winning_number >= 19 /\ winning_number <= 36

\* the match with a Low range that reaches 19
check_win_nonzero_low_to_nineteen(bet_type, winning_number, winning_color) ==
    CASE bet_type.kind \in InsideKinds ->
            \E k \in 1..Len(bet_type.nums) : winning_number = bet_type.nums[k]
      [] bet_type.kind = "Column" -> column_wins(bet_type.nums[1], winning_number)
      [] bet_type.kind = "Dozen" -> dozen_wins(bet_type.nums[1], winning_number)
      [] bet_type.kind = "Red" -> winning_color = "Red"
      [] bet_type.kind = "Black" -> winning_color = "Black"
      [] bet_type.kind = "Odd" -> winning_number % 2 # 0
      [] bet_type.kind = "Even" -> winning_number % 2 = 0
      [] bet_type.kind = "Low" -> winning_number >= 1 /\ winning_number <= 19
      [] bet_type.kind = "High" -> winning_number >= 19 /\ winning_number <= 36

\* the match on the bet type of Bet::check_win, for a non-zero number
check_win_nonzero(bet_type, winning_number, winning_color) ==
    CASE bet_type.kind \in InsideKinds ->
            \E k \in 1..Len(bet_type.nums) : winning_number = bet_type.nums[k]
      [] bet_type.kind = "Column" -> column_wins(bet_type.nums[1], winning_number)
      [] bet_type.kind = "Dozen" -> dozen_wins(bet_type.nums[1], winning_number)
      [] bet_type.kind = "Red" -> winning_color = "Red"
      [] bet_type.kind = "Black" -> winning_color = "Black"
      [] bet_type.kind = "Odd" -> winning_number % 2 # 0
      [] bet_type.kind = "Even" -> winning_number % 2 = 0
      [] bet_type.kind = "Low" -> winning_number >= 1 /\ winning_number <= 18
      [] bet_type.kind = "High" -> winning_number >= 19 /\ winning_number <= 36

\* check_win with the zero branch left out
check_win_without_zero_rule(bet, winning_pocket) ==
    check_win_nonzero(bet.bet_type, winning_pocket.number, winning_pocket.color)

\* Bet::check_win
check_win(bet, winning_pocket) ==
    IF winning_pocket.number = 0
    THEN check_win_zero(bet.bet_type)
    ELSE check_win_nonzero(bet.bet_type, winning_pocket.number, winning_pocket.color)

\* a label-group bet (category, growth/value/blue-chip dozen): wins iff the
\* pocket is not zero and carries the label; nums lists the numbers of the
\* pockets that carry it
label_group_wins(bet_type, winning_pocket) ==
    /\ winning_pocket.number # 0
    /\ \E k \in 1..Len(bet_type.nums) : winning_pocket.number = bet_type.nums[k]

\* bet.check_win as the game calls it, label-group bets included
Bet_check_win(bet, winning_pocket) ==
    IF bet.bet_type.kind = "LabelGroup"
    THEN label_group_wins(bet.bet_type, winning_pocket)
    ELSE check_win(bet, winning_pocket)

\* bet.calculate_payout as the game calls it; a label-group bet pays 2 to 1
Bet_calculate_payout(bet) ==
    IF bet.bet_type.kind = "LabelGroup"
    THEN LET product == MulK(bet.amount, 2)
             total == Add(Wrap(product), bet.amount)
         IN [overflow |-> ~FitsU32(product) \/ ~FitsU32(total), val |-> Wrap(total)]
    ELSE calculate_payout(bet)

-----------------------------------------------------------------------------
(* Player *)

\* place_bet that accepts the bet without taking the stake
Player_place_bet_no_debit(bal, amount) ==
    IF Gt(amount, bal)
    THEN [ok |-> FALSE, balance |-> bal]
    ELSE [ok |-> TRUE, balance |-> bal]

\* place_bet that refuses a stake equal to the balance
Player_place_bet_rejects_equal(bal, amount) ==
    IF Gt(amount, bal) \/ amount = bal
    THEN [ok |-> FALSE, balance |-> bal]
    ELSE [ok |-> TRUE, balance |-> Sub(bal, amount)]

\* Player::place_bet
Player_place_bet(bal, amount) ==
    IF Gt(amount, bal)
    THEN [ok |-> FALSE, balance |-> bal]
    ELSE [ok |-> TRUE, balance |-> Sub(bal, amount)]

\* Player::add_winnings: balance += amount in u32
Player_add_winnings(bal, amount) ==
    LET sum == Add(bal, amount)
    IN [overflow |-> ~FitsU32(sum), balance |-> Wrap(sum)]

\* Player::refund_bet: balance += amount in u32
Player_refund_bet(bal, amount) ==
    LET sum == Add(bal, amount)
    IN [overflow |-> ~FitsU32(sum), balance |-> Wrap(sum)]

-----------------------------------------------------------------------------
(* Game *)

\* place_bet that records the bet although the debit was refused
Game_place_bet_push_on_failure(bal, bets, bet) ==
    LET r == Player_place_bet(bal, bet.amount)
    IN [ret |-> r.ok, balance |-> r.balance, current_bets |-> Append(bets, bet)]

\* Game::place_bet
Game_place_bet(bal, bets, bet) ==
    LET r == Player_place_bet(bal, bet.amount)
    IN IF r.ok
       THEN [ret |-> TRUE, balance |-> r.balance, current_bets |-> Append(bets, bet)]
       ELSE [ret |-> FALSE, balance |-> r.balance, current_bets |-> bets]

\* spin_wheel_and_resolve without its early return
SpinRefused_never(bets) == FALSE

\* the early return of Game::spin_wheel_and_resolve
SpinRefused(bets) == Len(bets) = 0

\* a resolution that keeps the resolved bets in the ledger
bets_kept(bets) == bets

\* self.current_bets.clear() at the end of spin_wheel_and_resolve
bets_after_resolve(bets) == <<>>

\* the loop iteration returning the stake of a losing bet
ResolveStep_refunds_losers(acc, bet, winning_pocket) ==
    LET wagered == Add(acc.total_bet_amount, bet.amount)
        won == Bet_check_win(bet, winning_pocket)
        payout == Bet_calculate_payout(bet)
        winnings == IF won THEN Add(acc.total_winnings, payout.val)
                    ELSE Add(acc.total_winnings, bet.amount)
    IN [overflow |-> acc.overflow \/ ~FitsU32(wagered)
                     \/ (won /\ payout.overflow) \/ ~FitsU32(winnings),
        total_bet_amount |-> Wrap(wagered),
        total_winnings |-> Wrap(winnings),
        results |-> Append(acc.results,
                           [won |-> won,
                            payout |-> IF won THEN payout.val ELSE Zero])]

\* the loop iteration replacing the winnings so far by the payout of a
\* winning bet instead of adding it
ResolveStep_keeps_last_payout(acc, bet, winning_pocket) ==
    LET wagered == Add(acc.total_bet_amount, bet.amount)
        won == Bet_check_win(bet, winning_pocket)
        payout == Bet_calculate_payout(bet)
        winnings == IF won THEN payout.val ELSE acc.total_winnings
    IN [overflow |-> acc.overflow \/ ~FitsU32(wagered) \/ (won /\ payout.overflow),
        total_bet_amount |-> Wrap(wagered),
        total_winnings |-> Wrap(winnings),
        results |-> Append(acc.results,
                           [won |-> won,
                            payout |-> IF won THEN payout.val ELSE Zero])]

\* one iteration of the loop over the placed bets in spin_wheel_and_resolve
ResolveStep(acc, bet, winning_pocket) ==
    LET wagered == Add(acc.total_bet_amount, bet.amount)
        won == Bet_check_win(bet, winning_pocket)
        payout == Bet_calculate_payout(bet)
        winnings == IF won THEN Add(acc.total_winnings, payout.val)
                    ELSE acc.total_winnings
    IN [overflow |-> acc.overflow \/ ~FitsU32(wagered)
                     \/ (won /\ (payout.overflow \/ ~FitsU32(winnings))),
        total_bet_amount |-> Wrap(wagered),
        total_winnings |-> Wrap(winnings),
        results |-> Append(acc.results,
                           [won |-> won,
                            payout |-> IF won THEN payout.val ELSE Zero])]

RECURSIVE ResolveLoop_draw_per_bet(_, _, _, _)
\* a loop that draws again for every bet: bet i is evaluated against the
\* pocket i - 1 places after the first draw
ResolveLoop_draw_per_bet(bets, winning_pocket, i, acc) ==
    IF i > Len(bets) THEN acc
    ELSE ResolveLoop_draw_per_bet(bets, winning_pocket, i + 1,
             ResolveStep(acc, bets[i],
                         Wheel_new[((winning_pocket.def + i - 2) % Len(Wheel_new)) + 1]))

RECURSIVE ResolveLoop(_, _, _, _)
\* the loop over the placed bets in spin_wheel_and_resolve
ResolveLoop(bets, winning_pocket, i, acc) ==
    IF i > Len(bets) THEN acc
    ELSE ResolveLoop(bets, winning_pocket, i + 1,
                     ResolveStep(acc, bets[i], winning_pocket))

\* the body of spin_wheel_and_resolve after the draw: the loop, the credit
Resolve(bal, bets, winning_pocket) ==
    LET r == ResolveLoop(bets, winning_pocket, 1,
                         [overflow |-> FALSE, total_bet_amount |-> Zero,
                          total_winnings |-> Zero, results |-> <<>>])
        credited == Gt(r.total_winnings, Zero)
        paid == IF credited THEN Player_add_winnings(bal, r.total_winnings)
                ELSE [overflow |-> FALSE, balance |-> bal]
    IN [overflow |-> r.overflow \/ paid.overflow,
        balance |-> paid.balance,
        credited |-> credited,
        total_bet_amount |-> r.total_bet_amount,
        total_winnings |-> r.total_winnings,
        results |-> r.results]

\* clear_bets without its early return
ClearRefused_never(bets) == FALSE

\* the early return of Game::clear_bets
ClearRefused(bets) == Len(bets) = 0

RECURSIVE TotalRefund(_)
\* the loop of Game::clear_bets
TotalRefund(bets) ==
    IF bets = <<>> THEN [overflow |-> FALSE, val |-> Zero]
    ELSE LET rest == TotalRefund(SubSeq(bets, 1, Len(bets) - 1))
             sum == Add(rest.val, bets[Len(bets)].amount)
         IN [overflow |-> rest.overflow \/ ~FitsU32(sum), val |-> Wrap(sum)]

\* clear_bets that empties the ledger without the refund
Game_clear_bets_no_refund(bal, bets) ==
    [overflow |-> FALSE, total_refund |-> Zero, balance |-> bal,
     current_bets |-> <<>>]

\* Game::clear_bets on a non-empty ledger
Game_clear_bets(bal, bets) ==
    LET total_refund == TotalRefund(bets)
        refunded == Player_refund_bet(bal, total_refund.val)
    IN [overflow |-> total_refund.overflow \/ refunded.overflow,
        total_refund |-> total_refund.val,
        balance |-> refunded.balance,
        current_bets |-> <<>>]

-----------------------------------------------------------------------------
(* Inputs of the game specification *)

StartBalances == {N(100), N(1000), U32_MAX}

Amounts == {Zero, N(50), N(100), N(200000000)}

GameBetTypes ==
    {BetType("StraightUp", <<17>>), BetType("Red", <<>>), BetType("Low", <<>>)}

-----------------------------------------------------------------------------
(* The game: Game::new, then place_bet, clear_bets and
   spin_wheel_and_resolve in any order *)

Init ==
    /\ balance \in StartBalances
    /\ current_bets = <<>>
    /\ overflow_checks \in BOOLEAN
    /\ panicked = FALSE
    /\ out = [op |-> "new"]
    /\ round_start = balance
    /\ placed = 0
    /\ wheel = Game_wheel
    /\ pc = "direct"

Panic(where) ==
    /\ panicked' = TRUE
    /\ out' = [op |-> "panic", in |-> where]
    /\ UNCHANGED <<balance, current_bets, overflow_checks, round_start, placed, wheel, pc>>

\* game.place_bet(bet), bet being the outcome of Bet::new
PlaceNewBet(bet) ==
    IF bet.panic
    THEN Panic("Bet::new")
    ELSE LET r == Game_place_bet(balance, current_bets,
                                 [bet_type |-> bet.bet_type, amount |-> bet.amount])
         IN /\ balance' = r.balance
            /\ current_bets' = r.current_bets
            /\ out' = [op |-> "place_bet", ret |-> r.ret,
                       bet |-> [bet_type |-> bet.bet_type, amount |-> bet.amount]]
            /\ placed' = IF r.ret THEN placed + 1 ELSE placed
            /\ UNCHANGED <<overflow_checks, panicked, round_start, wheel>>

PlaceBet ==
    /\ ~panicked
    /\ placed < MaxPlaced
    /\ \E bet_type \in GameBetTypes, amount \in Amounts :
          PlaceNewBet(Bet_new(bet_type, amount))
    /\ UNCHANGED pc

\* a call of game.spin_wheel_and_resolve()
CallSpinWheelAndResolve ==
    IF SpinRefused(current_bets)
    THEN /\ out' = [op |-> "spin", resolved |-> FALSE]
         /\ UNCHANGED <<balance, current_bets, overflow_checks, panicked,
                        round_start, placed, wheel>>
    ELSE /\ \E winning_pocket \in SpinResults(wheel) :
               LET r == Resolve(balance, current_bets, winning_pocket)
               IN IF r.overflow /\ overflow_checks
                  THEN Panic("spin_wheel_and_resolve")
                  ELSE /\ balance' = r.balance
                       /\ current_bets' = bets_after_resolve(current_bets)
                       /\ round_start' = r.balance
                       /\ out' = [op |-> "spin", resolved |-> TRUE,
                                  winning_pocket |-> winning_pocket,
                                  bets |-> current_bets,
                                  balance_before |-> balance,
                                  round_start |-> round_start,
                                  credited |-> r.credited,
                                  total_bet_amount |-> r.total_bet_amount,
                                  total_winnings |-> r.total_winnings,
                                  results |-> r.results]
                       /\ UNCHANGED <<overflow_checks, panicked, placed, wheel>>

SpinWheelAndResolve ==
    /\ ~panicked
    /\ CallSpinWheelAndResolve
    /\ UNCHANGED pc

\* a call of game.clear_bets()
CallClearBets ==
    IF ClearRefused(current_bets)
    THEN /\ out' = [op |-> "clear_bets", cleared |-> FALSE]
         /\ UNCHANGED <<balance, current_bets, overflow_checks, panicked,
                        round_start, placed, wheel>>
    ELSE LET r == Game_clear_bets(balance, current_bets)
         IN IF r.overflow /\ overflow_checks
            THEN Panic("clear_bets")
            ELSE /\ balance' = r.balance
                 /\ current_bets' = r.current_bets
                 /\ round_start' = r.balance
                 /\ out' = [op |-> "clear_bets", cleared |-> TRUE,
                            total_refund |-> r.total_refund]
                 /\ UNCHANGED <<overflow_checks, panicked, placed, wheel>>

ClearBets ==
    /\ ~panicked
    /\ CallClearBets
    /\ UNCHANGED pc

Next == PlaceBet \/ SpinWheelAndResolve \/ ClearBets

Spec == Init /\ [][Next]_vars


-----------------------------------------------------------------------------
(* The rules alone: a bet built by Bet::new and a pocket of the wheel, then
   Bet::check_win or Bet::calculate_payout applied to them *)

U8Sample == (0..37) \cup {255}

RuleAmounts == {N(1), N(100), N(119304647), N(200000000), U32_MAX}

MultiNumberBetTypes ==
    {BetType("Split", <<a, b>>) : a, b \in {0, 1, 17, 36}}
    \cup {BetType("Street", t) : t \in {<<0, 1, 2>>, <<1, 2, 3>>, <<34, 35, 36>>}}
    \cup {BetType("Corner", t) : t \in {<<0, 1, 2, 3>>, <<1, 2, 4, 5>>, <<32, 33, 35, 36>>}}
    \cup {BetType("SixLine", t) : t \in {<<0, 1, 2, 3, 4, 5>>, <<1, 2, 3, 4, 5, 6>>,
                                         <<31, 32, 33, 34, 35, 36>>}}

RuleBetTypes ==
    {BetType(k, <<n>>) : k \in {"StraightUp", "Column", "Dozen"}, n \in U8Sample}
    \cup MultiNumberBetTypes
    \cup {BetType(k, <<>>) : k \in {"Red", "Black", "Odd", "Even", "Low", "High"}}

RulesInit ==
    /\ balance = N(1000)
    /\ current_bets = <<>>
    /\ overflow_checks \in BOOLEAN
    /\ panicked = FALSE
    /\ round_start = balance
    /\ placed = 0
    /\ wheel = Game_wheel
    /\ pc = "direct"
    /\ \E bet_type \in RuleBetTypes, amount \in RuleAmounts, pocket \in SpinResults(Game_wheel) :
          LET bet == Bet_new(bet_type, amount)
          IN out = [op |-> "bet",
                    bet |-> [bet_type |-> bet.bet_type, amount |-> bet.amount],
                    winning_pocket |-> pocket]

CheckWin ==
    /\ out.op = "bet"
    /\ out' = [op |-> "check_win", bet |-> out.bet,
               winning_pocket |-> out.winning_pocket,
               won |-> check_win(out.bet, out.winning_pocket)]
    /\ UNCHANGED <<balance, current_bets, overflow_checks, panicked, round_start, placed, wheel, pc>>

CalculatePayout ==
    /\ out.op = "bet"
    /\ LET r == calculate_payout(out.bet)
       IN IF r.overflow /\ overflow_checks
          THEN /\ panicked' = TRUE
               /\ out' = [op |-> "panic", in |-> "calculate_payout", bet |-> out.bet]
          ELSE /\ out' = [op |-> "calculate_payout", bet |-> out.bet, payout |-> r.val]
               /\ UNCHANGED panicked
    /\ UNCHANGED <<balance, current_bets, overflow_checks, round_start, placed, wheel, pc>>

RulesNext == CheckWin \/ CalculatePayout

RulesSpec == RulesInit /\ [][RulesNext]_vars

-----------------------------------------------------------------------------
(* Bet construction: bets built by the helper functions or by Bet::new with *)
(* any BetType value, placed in the game and resolved.                       *)

\* create_straight_up: Some(bet) as [some |-> TRUE, bet |-> ...], None otherwise
create_straight_up(number, amount) ==
    IF number <= 36
    THEN [some |-> TRUE, bet |-> Bet_new(BetType("StraightUp", <<number>>), amount)]
    ELSE [some |-> FALSE]

create_column_bet(column, amount) ==
    IF column >= 1 /\ column <= 3
    THEN [some |-> TRUE, bet |-> Bet_new(BetType("Column", <<column>>), amount)]
    ELSE [some |-> FALSE]

create_dozen_bet(dozen, amount) ==
    IF dozen >= 1 /\ dozen <= 3
    THEN [some |-> TRUE, bet |-> Bet_new(BetType("Dozen", <<dozen>>), amount)]
    ELSE [some |-> FALSE]

ConstructAmounts == {Zero, N(10)}

HelperArguments == {0, 3, 37}

\* BetType values handed to Bet::new directly
ConstructBetTypes ==
    {BetType("StraightUp", <<37>>), BetType("Column", <<7>>), BetType("Dozen", <<0>>),
     BetType("Split", <<17, 20>>), BetType("Split", <<5, 5>>),
     BetType("Street", <<40, 41, 42>>)}

ConstructInit ==
    /\ balance = N(100)
    /\ current_bets = <<>>
    /\ overflow_checks \in BOOLEAN
    /\ panicked = FALSE
    /\ out = [op |-> "new"]
    /\ round_start = balance
    /\ placed = 0
    /\ wheel = Game_wheel
    /\ pc = "direct"

\* the caller's "if let Some(bet) = ... { game.place_bet(bet) }"
PlaceCreated(kind, r) ==
    IF r.some
    THEN PlaceNewBet(r.bet)
    ELSE /\ out' = [op |-> "create", kind |-> kind, ret |-> "None"]
         /\ UNCHANGED <<balance, current_bets, overflow_checks, panicked,
                        round_start, placed, wheel>>

CreateStraightUp ==
    /\ ~panicked
    /\ placed < MaxPlaced
    /\ \E number \in HelperArguments, amount \in ConstructAmounts :
          PlaceCreated("StraightUp", create_straight_up(number, amount))
    /\ UNCHANGED pc

CreateColumnBet ==
    /\ ~panicked
    /\ placed < MaxPlaced
    /\ \E column \in HelperArguments, amount \in ConstructAmounts :
          PlaceCreated("Column", create_column_bet(column, amount))
    /\ UNCHANGED pc

CreateDozenBet ==
    /\ ~panicked
    /\ placed < MaxPlaced
    /\ \E dozen \in HelperArguments, amount \in ConstructAmounts :
          PlaceCreated("Dozen", create_dozen_bet(dozen, amount))
    /\ UNCHANGED pc

NewBet ==
    /\ ~panicked
    /\ placed < MaxPlaced
    /\ \E bet_type \in ConstructBetTypes, amount \in ConstructAmounts :
          PlaceNewBet(Bet_new(bet_type, amount))
    /\ UNCHANGED pc

ConstructNext ==
    \/ CreateStraightUp
    \/ CreateColumnBet
    \/ CreateDozenBet
    \/ NewBet
    \/ SpinWheelAndResolve
    \/ ClearBets

ConstructSpec == ConstructInit /\ [][ConstructNext]_vars

-----------------------------------------------------------------------------
(* The wheel on its own: a freshly constructed game whose wheel is spun and *)
(* queried directly.                                                        *)

U8 == 0..255

WheelInit ==
    /\ balance = N(1000)
    /\ current_bets = <<>>
    /\ overflow_checks \in BOOLEAN
    /\ panicked = FALSE
    /\ round_start = balance
    /\ placed = 0
    /\ wheel = Game_wheel
    /\ pc = "direct"
    /\ out = [op |-> "new"]

WheelUnchanged ==
    UNCHANGED <<balance, current_bets, overflow_checks, panicked, round_start,
                placed, wheel, pc>>

Spin ==
    /\ \E pocket \in SpinResults(wheel) : out' = [op |-> "wheel_spin", ret |-> pocket]
    /\ WheelUnchanged

GetPocket ==
    /\ \E number \in U8 :
          out' = [op |-> "get_pocket", number |-> number,
                  ret |-> Wheel_get_pocket(wheel, number)]
    /\ WheelUnchanged

GetAllPockets ==
    /\ out' = [op |-> "get_all_pockets", ret |-> wheel.pockets]
    /\ WheelUnchanged

WheelNext == Spin \/ GetPocket \/ GetAllPockets

WheelSpec == WheelInit /\ [][WheelNext]_vars

-----------------------------------------------------------------------------
(* Startup: Wheel::new applied to the shipped pocket definitions and to     *)
(* definition lists of other lengths, then the wheel's read operations.     *)

PocketDefinitionConfigs ==
    {get_pocket_definitions, <<>>, [i \in 1..36 |-> i], [i \in 1..38 |-> i]}

StartupInit ==
    /\ balance = N(1000)
    /\ current_bets = <<>>
    /\ overflow_checks \in BOOLEAN
    /\ panicked = FALSE
    /\ round_start = balance
    /\ placed = 0
    /\ wheel = [pockets |-> <<>>, pocket_map |-> <<>>]
    /\ pc = "startup"
    /\ \E pocket_defs \in PocketDefinitionConfigs :
          out = [op |-> "configure", pocket_defs |-> pocket_defs]

WheelConstruct ==
    /\ pc = "startup" /\ ~panicked
    /\ LET r == Wheel_new_from(out.pocket_defs)
       IN IF r.panic
          THEN /\ panicked' = TRUE
               /\ out' = [op |-> "panic", in |-> "Wheel::new",
                          pocket_defs |-> out.pocket_defs]
               /\ UNCHANGED <<wheel, pc>>
          ELSE /\ wheel' = r.wheel
               /\ pc' = "direct"
               /\ out' = [op |-> "Wheel::new", pocket_defs |-> out.pocket_defs]
               /\ UNCHANGED panicked
    /\ UNCHANGED <<balance, current_bets, overflow_checks, round_start, placed>>

WheelUse == pc = "direct" /\ WheelNext

StartupNext == WheelConstruct \/ WheelUse

StartupSpec == StartupInit /\ [][StartupNext]_vars

-----------------------------------------------------------------------------
(* The session of main: the starting balance, then rounds of betting        *)
(* (handle_betting, one action per menu choice), the spin with the check of *)
(* the balance, and the question whether to play another round.             *)
(* An input that may be empty is <<>> (None) or <<value>> (Some(value)).    *)

\* the starting balance main passes to Game::new
starting_balance(input) ==
    IF input # <<>> /\ Gt(input[1], Zero) THEN input[1] ELSE N(1000)

\* create_straight_up(&ticker, amount, &wheel): the single bet on the pocket
\* carrying the ticker, None for a ticker no pocket carries; a ticker is the
\* index of its pocket definition, 0 standing for an unknown one
create_straight_up_by_ticker(ticker, amount, w) ==
    IF \E i \in 1..Len(w.pockets) : w.pockets[i].def = ticker
    THEN LET i == CHOOSE i \in 1..Len(w.pockets) : w.pockets[i].def = ticker
         IN [some |-> TRUE,
             bet |-> Bet_new(BetType("StraightUp", <<w.pockets[i].number>>), amount)]
    ELSE [some |-> FALSE]

\* the numbers of the pockets of w whose definition is one of defs, in wheel order
RECURSIVE label_numbers(_, _, _)
label_numbers(w, defs, i) ==
    IF i > Len(w.pockets) THEN <<>>
    ELSE (IF w.pockets[i].def \in defs THEN <<w.pockets[i].number>> ELSE <<>>)
         \o label_numbers(w, defs, i + 1)

\* create_category_bet(&category, amount, &wheel): a label-group bet, None
\* for a category no pocket carries; a category is the set of definitions
\* that carry it
create_category_bet(category, amount, w) ==
    IF label_numbers(w, category, 1) # <<>>
    THEN [some |-> TRUE,
          bet |-> Bet_new(BetType("LabelGroup", label_numbers(w, category, 1)), amount)]
    ELSE [some |-> FALSE]

\* create_growth_dozen_bet, create_value_dozen_bet, create_blue_chip_dozen_bet
\* (choices 3, 4, 5): the definitions carrying each of the three dozen labels
dozen_label(choice) ==
    CASE choice = 3 -> 1..7
      [] choice = 4 -> 8..12
      [] choice = 5 -> 13..17

create_label_dozen_bet(choice, amount, w) ==
    [some |-> TRUE,
     bet |-> Bet_new(BetType("LabelGroup", label_numbers(w, dozen_label(choice), 1)),
                     amount)]

\* choices 6 to 11: create_red_bet, create_black_bet, create_odd_bet,
\* create_even_bet, create_low_bet, create_high_bet
create_outside_bet(choice, amount) ==
    LET kind == CASE choice = 6 -> "Red"
                  [] choice = 7 -> "Black"
                  [] choice = 8 -> "Odd"
                  [] choice = 9 -> "Even"
                  [] choice = 10 -> "Low"
                  [] choice = 11 -> "High"
    IN [some |-> TRUE, bet |-> Bet_new(BetType(kind, <<>>), amount)]

\* "x as u8" of a u32
as_u8(x) == x % 256

\* main after spin_wheel_and_resolve: a zero balance ends the session
after_settlement_always_asks(bal) == "play_again"

after_settlement(bal) == IF bal = Zero THEN "game_over" ELSE "play_again"

\* choice 0 leaving the betting loop whatever the ledger holds
after_finish_always_spins(bets) == "spin"

\* choice 0 of handle_betting: "continue" on an empty ledger, "break" otherwise
after_finish(bets) == IF Len(bets) = 0 THEN "betting" ELSE "spin"

\* the end of an iteration of handle_betting's loop
after_choice(bal, bets) ==
    IF bal = Zero /\ Len(bets) > 0 THEN "spin" ELSE "betting"

StartInputs == {<<>>, <<Zero>>, <<N(100)>>, <<U32_MAX>>}

AmountInputs == {<<>>, <<Zero>>, <<N(100)>>}

TickerInputs == {<<>>, <<0>>, <<1>>, <<9>>}

CategoryInputs == {<<>>, <<{}>>, <<1..7>>}

LabelDozenChoices == {3}

OutsideChoices == {6, 7}

ColumnInputs == {<<>>, <<1>>, <<4>>, <<259>>}

InvalidChoices == {14}

SessionInit ==
    /\ \E input \in StartInputs : balance = starting_balance(input)
    /\ current_bets = <<>>
    /\ overflow_checks \in BOOLEAN
    /\ panicked = FALSE
    /\ out = [op |-> "new"]
    /\ round_start = balance
    /\ placed = 0
    /\ wheel = Game_wheel
    /\ pc = "betting"

\* the amount prompt shared by the bet choices: a bet is built only for an
\* amount that was entered and is above 0
amount_entered(amount) == amount # <<>> /\ Gt(amount[1], Zero)

\* the tail of an iteration: place the bet if there is one, then stop
\* betting when the balance is 0 and the ledger is not empty
PlaceChosen(choice, bet_to_place) ==
    /\ PlaceCreated(choice, bet_to_place)
    /\ pc' = IF panicked' THEN pc ELSE after_choice(balance', current_bets')

ChooseStraightUp ==
    /\ pc = "betting" /\ ~panicked /\ placed < MaxPlaced
    /\ \E ticker \in TickerInputs, amount \in AmountInputs :
          PlaceChosen(1, IF ticker # <<>> /\ amount_entered(amount)
                         THEN create_straight_up_by_ticker(ticker[1], amount[1], wheel)
                         ELSE [some |-> FALSE])

ChooseCategory ==
    /\ pc = "betting" /\ ~panicked /\ placed < MaxPlaced
    /\ \E category \in CategoryInputs, amount \in AmountInputs :
          PlaceChosen(2, IF category # <<>> /\ amount_entered(amount)
                         THEN create_category_bet(category[1], amount[1], wheel)
                         ELSE [some |-> FALSE])

ChooseLabelDozen ==
    /\ pc = "betting" /\ ~panicked /\ placed < MaxPlaced
    /\ \E choice \in LabelDozenChoices, amount \in AmountInputs :
          PlaceChosen(choice, IF amount_entered(amount)
                              THEN create_label_dozen_bet(choice, amount[1], wheel)
                              ELSE [some |-> FALSE])

ChooseOutside ==
    /\ pc = "betting" /\ ~panicked /\ placed < MaxPlaced
    /\ \E choice \in OutsideChoices, amount \in AmountInputs :
          PlaceChosen(choice, IF amount_entered(amount)
                              THEN create_outside_bet(choice, amount[1])
                              ELSE [some |-> FALSE])

ChooseColumn ==
    /\ pc = "betting" /\ ~panicked /\ placed < MaxPlaced
    /\ \E col \in ColumnInputs, amount \in AmountInputs :
          PlaceChosen(12, IF col # <<>> /\ amount_entered(amount)
                          THEN create_column_bet(as_u8(col[1]), amount[1])
                          ELSE [some |-> FALSE])

\* choice 13: clear the bets and go on betting
ChooseClear ==
    /\ pc = "betting" /\ ~panicked
    /\ CallClearBets
    /\ UNCHANGED pc

\* choice 0 or an empty line: finish betting unless the ledger is empty
ChooseFinish ==
    /\ pc = "betting" /\ ~panicked
    /\ out' = [op |-> "finish", ok |-> Len(current_bets) > 0]
    /\ pc' = after_finish(current_bets)
    /\ UNCHANGED <<balance, current_bets, overflow_checks, panicked, round_start,
                   placed, wheel>>

\* any other choice
ChooseInvalid ==
    /\ pc = "betting" /\ ~panicked
    /\ \E choice \in InvalidChoices : out' = [op |-> "invalid_choice", choice |-> choice]
    /\ pc' = after_choice(balance, current_bets)
    /\ UNCHANGED <<balance, current_bets, overflow_checks, panicked, round_start,
                   placed, wheel>>

\* main: spin_wheel_and_resolve, then the check of the balance
SpinAndSettle ==
    /\ pc = "spin" /\ ~panicked
    /\ CallSpinWheelAndResolve
    /\ pc' = IF panicked' THEN pc ELSE after_settlement(balance')

\* main: "Play another round? (y/n)"
PlayAgain ==
    /\ pc = "play_again" /\ ~panicked
    /\ \E answer \in {"y", "n"} :
          /\ out' = [op |-> "play_again", answer |-> answer]
          /\ pc' = IF answer = "y" THEN "betting" ELSE "quit"
    /\ UNCHANGED <<balance, current_bets, overflow_checks, panicked, round_start,
                   placed, wheel>>

SessionNext ==
    \/ ChooseStraightUp
    \/ ChooseCategory
    \/ ChooseLabelDozen
    \/ ChooseOutside
    \/ ChooseColumn
    \/ ChooseClear
    \/ ChooseFinish
    \/ ChooseInvalid
    \/ SpinAndSettle
    \/ PlayAgain

SessionSpec == SessionInit /\ [][SessionNext]_vars

-----------------------------------------------------------------------------
(* Exact (unbounded) sums used to state the properties *)

RECURSIVE SumStakes(_)
SumStakes(bets) ==
    IF bets = <<>> THEN Zero
    ELSE Add(SumStakes(Tail(bets)), Head(bets).amount)

ExactPayout(bet) ==
    Add(MulK(bet.amount, payout_multiplier(bet.bet_type)), bet.amount)

RECURSIVE SumWinningPayouts(_, _)
SumWinningPayouts(bets, pocket) ==
    IF bets = <<>> THEN Zero
    ELSE LET rest == SumWinningPayouts(Tail(bets), pocket)
         IN IF check_win(Head(bets), pocket)
            THEN Add(rest, ExactPayout(Head(bets)))
            ELSE rest

NoBetWins(bets, pocket) == \A i \in 1..Len(bets) : ~check_win(bets[i], pocket)

Resolved == out.op = "spin" /\ out.resolved

\* the orders of n items
Orders(n) == {f \in [1..n -> 1..n] : \A i, j \in 1..n : f[i] = f[j] => i = j}

\* place_bet called for each bet of bets in turn, from an empty ledger
RECURSIVE PlaceAll(_, _)
PlaceAll(bal, bets) ==
    IF bets = <<>> THEN [ok |-> TRUE, balance |-> bal, current_bets |-> <<>>]
    ELSE LET before == PlaceAll(bal, SubSeq(bets, 1, Len(bets) - 1))
             r == Game_place_bet(before.balance, before.current_bets, bets[Len(bets)])
         IN [ok |-> before.ok /\ r.ret, balance |-> r.balance,
             current_bets |-> r.current_bets]

-----------------------------------------------------------------------------
(* Properties *)

\* C1: after a resolution the balance equals the balance held before the
\* round's bets were placed, minus all stakes in the ledger, plus the payouts
\* of exactly the bets that win against the drawn pocket.
C1_ResolutionConservation ==
    Resolved =>
        balance = Add(Sub(out.round_start, SumStakes(out.bets)),
                      SumWinningPayouts(out.bets, out.winning_pocket))

\* C2: in every reachable state the balance plus the stakes of the bets in
\* the ledger equals the balance held when the ledger was last empty.
C2_StakesReserved ==
    Add(balance, SumStakes(current_bets)) = round_start

C2_Witness ==
    /\ Len(current_bets) = 2
    /\ out.op = "place_bet" /\ out.ret
    /\ balance = N(850) /\ round_start = N(1000)

\* C3: a place_bet whose stake exceeds the balance returns false and leaves
\* the ledger and the balance as they were.
C3_FailedPlacementChangesNothing ==
    [][(out'.op = "place_bet" /\ Gt(out'.bet.amount, balance))
          => (~out'.ret /\ balance' = balance /\ current_bets' = current_bets)]_vars

C3_Witness ==
    /\ out.op = "place_bet" /\ ~out.ret
    /\ Gt(out.bet.amount, balance)
    /\ Len(current_bets) = 1

\* C4: clear_bets leaves the ledger empty (total staked 0) and the balance
\* equal to the balance held when the ledger was last empty, whatever
\* placements, successful or not, came in between.
C4_PlaceThenClearRestores ==
    [][out'.op = "clear_bets"
          => (current_bets' = <<>> /\ SumStakes(current_bets') = Zero
              /\ balance' = round_start)]_vars

C4_Witness ==
    /\ out.op = "clear_bets" /\ out.cleared
    /\ out.total_refund = N(150)
    /\ current_bets = <<>> /\ balance = N(1000)

\* C5: a spin_wheel_and_resolve on a non-empty ledger that returns has drawn
\* a pocket and leaves the ledger empty, refunding nothing (with no winning
\* bet the balance is unchanged); a spin_wheel_and_resolve that directly
\* follows another one resolves nothing.
C5_OneResolutionPerLedger ==
    [][/\ (out'.op = "spin" /\ current_bets # <<>>)
            => /\ out'.resolved
               /\ out'.bets = current_bets
               /\ current_bets' = <<>>
               /\ NoBetWins(current_bets, out'.winning_pocket) => balance' = balance
       /\ (out.op = "spin" /\ out'.op = "spin")
            => (~out'.resolved /\ balance' = balance /\ current_bets' = current_bets)
      ]_vars

C5_Witness ==
    /\ Resolved
    /\ Len(out.bets) = 2
    /\ current_bets = <<>>
    /\ balance = out.balance_before

\* C6: spin_wheel_and_resolve on an empty ledger draws no pocket, credits
\* nothing, leaves balance and ledger unchanged, and does not panic.
C6_EmptyLedgerRefused ==
    [][(/\ current_bets = <<>>
        /\ \/ out'.op = "spin"
           \/ (out'.op = "panic" /\ out'.in = "spin_wheel_and_resolve"))
          => (/\ out' = [op |-> "spin", resolved |-> FALSE]
              /\ balance' = balance
              /\ current_bets' = <<>>
              /\ ~panicked')]_vars

C6_Witness ==
    /\ out = [op |-> "spin", resolved |-> FALSE]
    /\ current_bets = <<>>
    /\ ~panicked

\* C7: calculate_payout returns stake * multiplier + stake for every bet.
C7_PayoutFormula ==
    /\ out.op = "calculate_payout" => out.payout = ExactPayout(out.bet)
    /\ ~(out.op = "panic" /\ out.in = "calculate_payout")

\* C8: the amount credited at a resolution is the sum of the payouts of the
\* winning bets only (a losing bet adds nothing), and when no bet wins nothing
\* is credited and the balance is the one held right before the resolution.
C8_LosingStakesForfeit ==
    Resolved =>
        /\ out.total_winnings = Wrap(SumWinningPayouts(out.bets, out.winning_pocket))
        /\ NoBetWins(out.bets, out.winning_pocket)
              => (~out.credited /\ out.total_winnings = Zero
                  /\ balance = out.balance_before)

C8_Witness ==
    /\ Resolved
    /\ out.winning_pocket.number = 0
    /\ out.bets = <<[bet_type |-> BetType("Red", <<>>), amount |-> N(50)],
                    [bet_type |-> BetType("Low", <<>>), amount |-> N(50)]>>
    /\ out.round_start = N(1000)
    /\ balance = N(900)

\* C9: against the pocket with number 0, every outside bet (Column and Dozen
\* with any index, Red, Black, Odd, Even, Low, High), with any stake, loses.
C9_ZeroBeatsOutsideBets ==
    (/\ out.op = "check_win"
     /\ out.winning_pocket.number = 0
     /\ out.bet.bet_type.kind \in OutsideKinds)
        => ~out.won

C9_Witness ==
    /\ out.op = "check_win"
    /\ out.winning_pocket.number = 0
    /\ out.bet.bet_type = BetType("Column", <<3>>)
    /\ out.bet.amount = U32_MAX
    /\ ~out.won

\* C10: against the pocket with number 0 a bet wins if and only if it is
\* StraightUp(0); Split, Street, Corner and SixLine bets lose even when their
\* numbers include 0.
C10_OnlyStraightUpZeroWinsOnZero ==
    (out.op = "check_win" /\ out.winning_pocket.number = 0)
        => (out.won <=> out.bet.bet_type = BetType("StraightUp", <<0>>))

C10_Witness ==
    /\ out.op = "check_win"
    /\ out.winning_pocket.number = 0
    /\ out.bet.bet_type = BetType("Split", <<0, 1>>)
    /\ ~out.won

\* C11: for every pocket number n in 1..36 exactly one of Column(1),
\* Column(2), Column(3) wins, and Column(c) wins iff n % 3 = c % 3.
C11_ColumnConsistency ==
    (out.op = "check_win" /\ out.winning_pocket.number \in 1..36)
        => /\ Cardinality({c \in 1..3 :
                  check_win([bet_type |-> BetType("Column", <<c>>),
                             amount |-> out.bet.amount],
                            out.winning_pocket)}) = 1
           /\ (out.bet.bet_type.kind = "Column" /\ out.bet.bet_type.nums[1] \in 1..3)
                 => (out.won <=> out.winning_pocket.number % 3
                                    = out.bet.bet_type.nums[1] % 3)

C11_Witness ==
    /\ out.op = "check_win"
    /\ out.bet.bet_type = BetType("Column", <<3>>)
    /\ out.winning_pocket.number = 36
    /\ out.won

\* C12: for every pocket number n in 1..36 an inside bet (StraightUp, Split,
\* Street, Corner, SixLine) wins if and only if n is one of its numbers.
C12_InsideBetsWinByMembership ==
    (/\ out.op = "check_win"
     /\ out.winning_pocket.number \in 1..36
     /\ out.bet.bet_type.kind \in InsideKinds)
        => (out.won <=> out.winning_pocket.number
                           \in {out.bet.bet_type.nums[k] :
                                   k \in 1..Len(out.bet.bet_type.nums)})

C12_Witness ==
    /\ out.op = "check_win"
    /\ out.bet.bet_type = BetType("SixLine", <<31, 32, 33, 34, 35, 36>>)
    /\ out.winning_pocket.number = 36
    /\ out.won

\* C19: a place_bet whose stake is at most the balance (equal included)
\* returns true, lowers the balance by exactly the stake and appends the bet
\* at the end of the ledger, the earlier entries unchanged.
C19_SuccessfulPlacement ==
    [][(out'.op = "place_bet" /\ ~Gt(out'.bet.amount, balance))
          => (/\ out'.ret
              /\ Add(balance', out'.bet.amount) = balance
              /\ current_bets' = Append(current_bets, out'.bet))]_vars

C19_Witness ==
    /\ out.op = "place_bet" /\ out.ret
    /\ balance = Zero
    /\ Len(current_bets) = 2
    /\ current_bets[2] = out.bet

\* C16: the wheel holds exactly 37 pockets whose numbers are exactly 0..36,
\* each once; a pocket is Green iff its number is 0 and Red or Black
\* otherwise; no operation of the game, spin included, changes the wheel.
C16_WheelComposition ==
    /\ [](/\ Len(wheel.pockets) = 37
          /\ {wheel.pockets[i].number : i \in 1..Len(wheel.pockets)} = 0..36
          /\ \A i \in 1..Len(wheel.pockets) :
                /\ wheel.pockets[i].color \in {"Red", "Black", "Green"}
                /\ wheel.pockets[i].color = "Green" <=> wheel.pockets[i].number = 0)
    /\ [][wheel' = wheel]_vars

C16_Witness ==
    /\ Resolved
    /\ out.winning_pocket = wheel.pockets[37]
    /\ out.winning_pocket.number = 26
    /\ out.winning_pocket.color = "Black"

\* C17: get_pocket(n) returns the pocket of the wheel whose number is n (the
\* very entry of the pockets vector, color and labels included) for
\* 0 <= n <= 36, and None for every other u8.
C17_Lookup ==
    out.op = "get_pocket" =>
        IF out.number <= 36
        THEN /\ Len(out.ret) = 1
             /\ out.ret[1].number = out.number
             /\ \E i \in 1..Len(wheel.pockets) : wheel.pockets[i] = out.ret[1]
        ELSE out.ret = <<>>

C17_Witness ==
    /\ out.op = "get_pocket"
    /\ out.number = 26
    /\ out.ret = <<[number |-> 26, color |-> "Black", def |-> 37]>>

\* C13: a bet with stake 0 is rejected as a construction error that leaves
\* the round usable: every bet of the ledger has a stake above 0, and building
\* a bet never stops the game.
C13_ZeroStakeRejected ==
    /\ \A i \in 1..Len(current_bets) : Gt(current_bets[i].amount, Zero)
    /\ out.op = "panic" => out.in # "Bet::new"

\* C14: identifiers are validated when a bet is built: no bet of the ledger
\* has a StraightUp number outside 0..36 or a Column or Dozen index outside
\* 1..3, so no resolution evaluates such a bet.
C14_IndexValidAtConstruction ==
    /\ \A i \in 1..Len(current_bets) :
          LET t == current_bets[i].bet_type
          IN /\ t.kind = "StraightUp" => t.nums[1] \in 0..36
             /\ t.kind \in {"Column", "Dozen"} => t.nums[1] \in 1..3
    /\ Resolved =>
          \A i \in 1..Len(out.bets) :
              LET t == out.bets[i].bet_type
              IN /\ t.kind = "StraightUp" => t.nums[1] \in 0..36
                 /\ t.kind \in {"Column", "Dozen"} => t.nums[1] \in 1..3

\* C15: a Split, Street, Corner or SixLine bet whose identifiers repeat or
\* leave 0..36 is never accepted into the ledger.
C15_MalformedInsideBetRejected ==
    \A i \in 1..Len(current_bets) :
        LET t == current_bets[i].bet_type
        IN t.kind \in {"Split", "Street", "Corner", "SixLine"} =>
              /\ \A k \in 1..Len(t.nums) : t.nums[k] \in 0..36
              /\ \A k, l \in 1..Len(t.nums) : t.nums[k] = t.nums[l] => k = l

\* C18: in the session a settlement that leaves the balance at 0 ends the
\* session (no step follows it), a settlement that leaves a balance above 0
\* leads to the play-again question, and every betting phase starts with a
\* balance above 0.
C18_SessionEndsOnZeroBalance ==
    /\ [](/\ pc = "game_over" => balance = Zero
          /\ pc = "play_again" => Gt(balance, Zero)
          /\ pc = "betting" => Gt(round_start, Zero))
    /\ [][/\ pc # "game_over"
          /\ (pc = "spin" /\ ~panicked')
                => /\ balance' = Zero => pc' = "game_over"
                   /\ Gt(balance', Zero) => pc' = "play_again"]_vars

C18_Witness ==
    /\ pc = "game_over"
    /\ out.op = "spin"
    /\ out.resolved
    /\ balance = Zero

\* C20: one resolution draws one pocket and evaluates every bet of the
\* ledger against it: each reported result is check_win of that bet on the
\* reported winning pocket, which is a pocket of the wheel, and two bets on
\* exclusive predicates (Red and Black, or two different single numbers)
\* never both win.
C20_OneDrawPerResolution ==
    Resolved =>
        /\ \E k \in 1..Len(wheel.pockets) : wheel.pockets[k] = out.winning_pocket
        /\ Len(out.results) = Len(out.bets)
        /\ \A i \in 1..Len(out.bets) :
              out.results[i].won <=> Bet_check_win(out.bets[i], out.winning_pocket)
        /\ \A i, j \in 1..Len(out.bets) :
              LET s == out.bets[i].bet_type
                  t == out.bets[j].bet_type
              IN (\/ s.kind = "Red" /\ t.kind = "Black"
                  \/ s.kind = "StraightUp" /\ t.kind = "StraightUp" /\ s.nums # t.nums)
                      => ~(out.results[i].won /\ out.results[j].won)

C20_Witness ==
    /\ Resolved
    /\ Len(out.bets) = 2
    /\ out.bets[1].bet_type.kind = "Red"
    /\ out.bets[2].bet_type.kind = "Black"
    /\ out.results[1].won
    /\ ~out.results[2].won

\* C21: the betting loop never hands an empty ledger to the spin: betting
\* ends only with at least one bet in the ledger, so every
\* spin_wheel_and_resolve of the session resolves at least one bet, also
\* after the bets were cleared with choice 13.
C21_FinishRefusedOnEmptyLedger ==
    /\ [](/\ pc = "spin" => Len(current_bets) > 0
          /\ out.op = "spin" => (out.resolved /\ Len(out.bets) > 0)
          /\ (out.op = "finish" /\ ~out.ok) => (pc = "betting" /\ current_bets = <<>>))
    /\ [][(pc = "betting" /\ pc' # "betting")
              => (pc' = "spin" /\ Len(current_bets') > 0)]_vars

C21_Witness ==
    /\ out.op = "finish"
    /\ ~out.ok
    /\ pc = "betting"
    /\ placed = 1
    /\ balance = round_start
    /\ balance = N(1000)

\* C22: on a pocket numbered n in 1..36, Odd wins iff n is odd, Even iff n
\* is even, Low iff n is in 1..18, High iff n is in 19..36, and Dozen(d), d in
\* 1..3, iff 12*(d-1)+1 <= n <= 12*d.
C22_NumericOutsideBets ==
    (out.op = "check_win" /\ out.winning_pocket.number \in 1..36) =>
        LET n == out.winning_pocket.number
            t == out.bet.bet_type
        IN /\ t.kind = "Odd" => (out.won <=> n \in {2 * k - 1 : k \in 1..18})
           /\ t.kind = "Even" => (out.won <=> n \in {2 * k : k \in 1..18})
           /\ t.kind = "Low" => (out.won <=> n \in 1..18)
           /\ t.kind = "High" => (out.won <=> n \in 19..36)
           /\ (t.kind = "Dozen" /\ t.nums[1] \in 1..3)
                 => (out.won <=> (12 * (t.nums[1] - 1) + 1 <= n /\ n <= 12 * t.nums[1]))

C22_Witness ==
    /\ out.op = "check_win"
    /\ out.bet.bet_type = BetType("Dozen", <<2>>)
    /\ out.winning_pocket.number = 24
    /\ out.won

\* C23: on every pocket of the wheel a Red bet wins iff the pocket is Red
\* and a Black bet iff it is Black; Red wins on exactly the numbers 1, 3, 5,
\* 7, 9, 12, 14, 16, 18, 19, 21, 23, 25, 27, 30, 32, 34, 36, Black on exactly
\* the other numbers of 1..36, and neither wins on 0.
C23_ColorBets ==
    out.op = "check_win" =>
        LET n == out.winning_pocket.number
            t == out.bet.bet_type
            reds == {1, 3, 5, 7, 9, 12, 14, 16, 18, 19, 21, 23, 25, 27, 30, 32, 34, 36}
        IN /\ t.kind = "Red" => /\ out.won <=> out.winning_pocket.color = "Red"
                                /\ out.won <=> n \in reds
           /\ t.kind = "Black" => /\ out.won <=> out.winning_pocket.color = "Black"
                                  /\ out.won <=> n \in (1..36) \ reds

C23_Witness ==
    /\ out.op = "check_win"
    /\ out.bet.bet_type.kind = "Black"
    /\ out.winning_pocket.number = 11
    /\ out.winning_pocket.color = "Black"
    /\ out.won

\* C24: clear_bets on an empty ledger changes neither the balance nor the
\* ledger and reports that nothing was cleared; the ledger is empty after
\* every clear_bets, so a second clear_bets in a row changes nothing.
C24_ClearOnEmptyIsNoOp ==
    /\ [](out.op = "clear_bets" => current_bets = <<>>)
    /\ [][(out'.op = "clear_bets" /\ current_bets = <<>>)
             => /\ balance' = balance
                /\ current_bets' = current_bets
                /\ round_start' = round_start
                /\ ~out'.cleared]_vars

C24_Witness ==
    /\ out.op = "clear_bets"
    /\ ~out.cleared
    /\ placed = 1
    /\ balance = round_start
    /\ balance = N(1000)

\* C25: every result of Wheel::spin is one of the 37 pockets of the wheel,
\* each of the 37 pockets is a possible result of every spin, and a spin
\* leaves the wheel as it was.
C25_DrawRange ==
    /\ [](/\ out.op = "wheel_spin"
                => \E i \in 1..37 : i <= Len(wheel.pockets) /\ wheel.pockets[i] = out.ret
          /\ \A i \in 1..37 :
                ENABLED (Spin /\ out'.op = "wheel_spin" /\ out'.ret = wheel.pockets[i]))
    /\ [][out'.op = "wheel_spin" => wheel' = wheel]_vars

C25_Witness ==
    /\ out.op = "wheel_spin"
    /\ out.ret = wheel.pockets[37]
    /\ out.ret.number = 26

\* C26: Wheel::new fails fatally exactly when the number of pocket
\* definitions is not 37; with the shipped definitions the count is 37 and the
\* wheel is built.
C26_WheelConstruction ==
    /\ [](/\ out.op = "panic" => Len(out.pocket_defs) # 37
          /\ out.op = "Wheel::new"
                => (Len(out.pocket_defs) = 37 /\ Len(wheel.pockets) = 37)
          /\ Len(get_pocket_definitions) = 37)
    /\ [][pc = "startup"
             => /\ Len(out.pocket_defs) # 37 => (panicked' /\ wheel' = wheel)
                /\ out.pocket_defs = get_pocket_definitions
                      => (~panicked' /\ out'.op = "Wheel::new")]_vars

C26_Witness ==
    /\ out.op = "panic"
    /\ out.in = "Wheel::new"
    /\ Len(out.pocket_defs) = 38
    /\ wheel.pockets = <<>>

\* C27: settlement never leaves the u32 range: no resolution aborts on an
\* arithmetic overflow, and at every resolution the payout of each bet, the
\* sum of the winning payouts and the credited balance, computed exactly, are
\* at most 2^32 - 1.
C27_NoOverflowInSettlement ==
    /\ ~(out.op = "panic" /\ out.in = "spin_wheel_and_resolve")
    /\ Resolved =>
          /\ \A i \in 1..Len(out.bets) :
                out.results[i].won => FitsU32(ExactPayout(out.bets[i]))
          /\ FitsU32(SumWinningPayouts(out.bets, out.winning_pocket))
          /\ FitsU32(Add(out.balance_before,
                         SumWinningPayouts(out.bets, out.winning_pocket)))

\* C28: on every pocket of the wheel numbered 1..36 exactly one of Odd and
\* Even wins, exactly one of Low and High, exactly one of Red and Black and
\* exactly one of Dozen(1), Dozen(2), Dozen(3); on pocket 0 none of them wins.
C28_OutsideBetsPartition ==
    out.op = "check_win" =>
        LET p == out.winning_pocket
            wins(t) == check_win([bet_type |-> t, amount |-> out.bet.amount], p)
            winners(S) == Cardinality({t \in S : wins(t)})
            groups == {{BetType("Odd", <<>>), BetType("Even", <<>>)},
                       {BetType("Low", <<>>), BetType("High", <<>>)},
                       {BetType("Red", <<>>), BetType("Black", <<>>)},
                       {BetType("Dozen", <<d>>) : d \in 1..3}}
        IN /\ \A S \in groups : winners(S) = (IF p.number = 0 THEN 0 ELSE 1)
           /\ (\E S \in groups : out.bet.bet_type \in S)
                 => (out.won <=> wins(out.bet.bet_type))

C28_Witness ==
    /\ out.op = "check_win"
    /\ out.bet.bet_type = BetType("High", <<>>)
    /\ out.winning_pocket.number = 19
    /\ out.won

\* C29: the bets of a resolved ledger (their stakes total at most the balance
\* the round started with) can be placed in every order, each placement
\* succeeding and leaving the same balance, and for the drawn pocket the
\* resolution of every order ends with the same balance.
C29_PlacementOrderIndependence ==
    Resolved =>
        \A f \in Orders(Len(out.bets)) :
            LET bets == [i \in 1..Len(out.bets) |-> out.bets[f[i]]]
                p == PlaceAll(out.round_start, bets)
                r == Resolve(p.balance, bets, out.winning_pocket)
            IN /\ p.ok
               /\ p.current_bets = bets
               /\ p.balance = out.balance_before
               /\ r.balance = balance
               /\ r.overflow => ~overflow_checks

C29_Witness ==
    /\ Resolved
    /\ Len(out.bets) = 2
    /\ out.bets[1].bet_type.kind = "StraightUp"
    /\ out.bets[2].bet_type.kind = "Low"
    /\ out.bets[1].amount # out.bets[2].amount
    /\ out.results[1].won
    /\ out.results[2].won

=============================================================================
